---- MODULE Spec2Model ----
(***************************************************************************)
(* Gesture-controlled particle display: the hand-pose classifier           *)
(* (GestureManager) and the particle morph engine (ParticleTextRenderer).  *)
(*                                                                         *)
(* Landmark coordinates are normalized camera coordinates in hundredths    *)
(* (0.15 is 15, 0.05 is 5).                                                *)
(***************************************************************************)
EXTENDS Integers, Sequences, FiniteSets, TLC

VARIABLES
    \* GestureManager
    waveHistory,     \* private waveHistory: number[]
    landmarks,       \* the sample passed to the last detectGesture call
    gesture,         \* the symbol the last detectGesture call returned
    calls,           \* number of detectGesture calls made so far
    \* ParticleTextRenderer
    currentPositions,        \* Float32Array, particle -> <<x, y, z>>
    targetPositions,         \* Float32Array, particle -> <<x, y, z>>
    fistBallOffsets,         \* Float32Array, particle -> <<x, y, z>>
    fistBallCenter,          \* {x, y, z}
    isFistBallActive,
    activeParticleCount,
    needsUpdate,             \* the dirty flag
    textCache,               \* Map in insertion order: sequence of entries
    materialColor,           \* particles.material.color
    currentTransitionSpeed,  \* the speed the last update() chose (0: none yet)
    updateRanges,            \* positionAttribute.updateRanges
    \* App
    currentGesture,          \* private currentGesture: GestureType
    lastMeaningfulGesture,   \* private lastMeaningfulGesture: GestureType
    lastPalmPosition,        \* the result of the last getPalmPosition call
    handDetected,            \* whether the last frame's detectHands found a hand
    frameCalls,              \* the calls animate() made in the last frame, in order
    frames,                  \* number of frames so far
    palmCalls,               \* number of getPalmPosition calls so far
    recentGesture,           \* the last value of currentGesture other than none
    \* The history the claims speak of
    lastCommand,     \* the last of resetParticles, updateText, createFistBall, explode
    lastCall,        \* the last method called on the renderer
    lastArgs,        \* the arguments of that call
    sameAsPrevious,  \* whether it repeated the call before it, arguments included
    lastEvicted,     \* the key the cache dropped last (<<>>: none yet)
    cmdsLeft,        \* commands the behaviour may still issue
    stepsLeft        \* update() calls the behaviour may still make (-1: no limit)

classifierVars == <<waveHistory, landmarks, gesture, calls>>

engineVars ==
    <<currentPositions, targetPositions, fistBallOffsets, fistBallCenter,
      isFistBallActive, activeParticleCount, needsUpdate, textCache,
      materialColor, currentTransitionSpeed, updateRanges>>

historyVars ==
    <<lastCommand, lastCall, lastArgs, sameAsPrevious, lastEvicted, cmdsLeft,
      stepsLeft>>

appVars ==
    <<currentGesture, lastMeaningfulGesture, lastPalmPosition, handDetected,
      frameCalls, frames, palmCalls, recentGesture>>

vars == <<classifierVars, engineVars, historyVars, appVars>>

-----------------------------------------------------------------------------
(* Bounds of the model *)

\* detectGesture calls in one behaviour
MaxCalls == 5

\* detectGesture calls in a behaviour that repeats one sample: one more than
\* the capacity of the wave history
MaxRepeats == 21

\* Frames of the animation loop (the fifth detectGesture call is the first
\* that can report a wave).
MaxFrames == 5

\* updateText calls in a behaviour that fills the cache: the entries the cache
\* holds when full (textCacheLimit + 1), one more to evict, and one for a hit.
MaxCacheCommands == 5

\* detectGesture calls in a sweep (past the largest capacity, 30), the calls
\* a sample is held for, and the getPalmPosition calls in a sweep.
MaxSweepCalls == 32

HoldCalls == 8

MaxPalmCalls == 2

\* particleCount, the constructor's argument (5,000 to 10,000 in the presets)
particleCount == 3

\* Math.min(3000, particleCount) of createFistBall, Math.min(2000,
\* particleCount) of resetParticles, Math.min(100, particleCount) of
\* isExplosionState and the size limit of textCache (10), scaled to the
\* model's particle count
ballParticleLimit == 2
randomParticleLimit == 1
explosionSampleLimit == 2
textCacheLimit == 2

\* renderer commands and in-flight update() calls in one behaviour
MaxCommands == 3
MaxUpdates == 1

\* renderer commands in a behaviour that lets every transition run until
\* the renderer is idle
MaxSettledCommands == 1
MaxStallCommands == 2

\* explode() is not issued once a coordinate is beyond this magnitude
\* (2^27 position units, 16384 in world units)
MaxCoordinate == 134217728

-----------------------------------------------------------------------------
(* Program constants of GestureManager *)

waveHistoryCapacity == 20
waveMinSamples == 5
waveThreshold == 15
thumbsUpMargin == 5
okPinchDistance == 5
heartPinchDistance == 8

-----------------------------------------------------------------------------
(* Hand pose samples *)

Abs(n) == IF n < 0 THEN -n ELSE n

Range(s) == {s[i] : i \in DOMAIN s}

SetMax(S) == CHOOSE m \in S : \A n \in S : n <= m

SetMin(S) == CHOOSE m \in S : \A n \in S : m <= n

Pt(px, py) == [x |-> px, y |-> py, z |-> 0]

\* The four finger chains: index, middle, ring, pinky.
FingerOf(i) == (i - 5) \div 4

\* createLandmarks(): wrist at the bottom, fingers pointing up, thumb to the
\* side; finger f has MCP y = 0.6, PIP 0.5, DIP 0.4, TIP 0.3 at x = 0.5 + 0.1 f.
BaseHand ==
    [i \in 0..20 |->
        IF i = 0 THEN Pt(50, 100)
        ELSE IF i = 1 THEN Pt(60, 90)
        ELSE IF i = 2 THEN Pt(70, 80)
        ELSE IF i = 3 THEN Pt(80, 70)
        ELSE IF i = 4 THEN Pt(90, 50)
        ELSE Pt(50 + 10 * FingerOf(i), 60 - 10 * ((i - 5) % 4))]

\* The y of a fingertip: extended (above its PIP at 50), level with the
\* PIP (index only), or curled (below it).
TipYs == {30, 50, 80}

TwoTipYs == {30, 80}

\* Thumb tip placements relative to the index tip: touching, at distance
\* exactly 0.05 (no OK pinch, close enough for a heart), at distance exactly
\* 0.08 (neither).
ThumbNearIndex == {<<0, 0>>, <<3, 4>>, <<0, 8>>}

\* Thumb tip placements away from the index tip: well above the thumb MCP
\* (y = 80), below it, and exactly 0.05 above it.
ThumbAway == {<<90, 50>>, <<70, 85>>, <<70, 75>>}

\* x of the middle fingertip (the wave tracking point): two values more than
\* 0.15 apart and one exactly 0.15 from the first.
TrackXs == {50, 65, 66}

Hand(iy, my, ry, py, thumb, tx) ==
    [BaseHand EXCEPT ![8].y = iy, ![12].y = my, ![16].y = ry, ![20].y = py,
                     ![12].x = tx, ![4].x = thumb[1], ![4].y = thumb[2]]

Shapes ==
    {Hand(iy, my, ry, py, th, 50) :
        iy \in TipYs, my \in TwoTipYs, ry \in TwoTipYs, py \in TwoTipYs,
        th \in ThumbAway}
    \cup
    {Hand(iy, my, ry, py, <<50 + d[1], iy + d[2]>>, 50) :
        iy \in TipYs, my \in TwoTipYs, ry \in TwoTipYs, py \in TwoTipYs,
        d \in ThumbNearIndex}

Samples == {[s EXCEPT ![12].x = tx] : s \in Shapes, tx \in TrackXs}

\* A fist and an open palm, the thumb off to the side.
FistHand(tx) == Hand(80, 80, 80, 80, <<70, 85>>, tx)

PalmHand(tx) == Hand(30, 30, 30, 30, <<90, 50>>, tx)

\* The two hands with the tracking point, the wrist and the depth of the
\* middle-finger MCP each in several places.
SweepSamples ==
    {[s EXCEPT ![0].x = wx, ![9].z = mz] :
        s \in {FistHand(tx) : tx \in TrackXs} \cup {PalmHand(tx) : tx \in TrackXs},
        wx \in {41, 50}, mz \in {-7, 0}}

-----------------------------------------------------------------------------
(* GestureManager *)

\* The distance taken in space, z included.
CloserInSpace(a, b, d) ==
    (a.x - b.x) * (a.x - b.x) + (a.y - b.y) * (a.y - b.y)
        + (a.z - b.z) * (a.z - b.z) < d * d

\* Math.hypot(a.x - b.x, a.y - b.y) < d, on squares
Closer(a, b, d) == (a.x - b.x) * (a.x - b.x) + (a.y - b.y) * (a.y - b.y) < d * d

Tips == <<8, 12, 16, 20>>
Pips == <<6, 10, 14, 18>>

\* With the margin test inclusive.
isThumbsUpInclusive(lm) ==
    LET fingersCurled == \A i \in 1..4 : lm[Tips[i]].y > lm[Pips[i]].y
        thumbExtended == lm[4].y <= lm[2].y - thumbsUpMargin
    IN  fingersCurled /\ thumbExtended

isThumbsUp(lm) ==
    LET fingersCurled == \A i \in 1..4 : lm[Tips[i]].y > lm[Pips[i]].y
        thumbExtended == lm[4].y < lm[2].y - thumbsUpMargin
    IN  fingersCurled /\ thumbExtended

isVictory(lm) ==
    LET indexExt == lm[8].y < lm[6].y
        middleExt == lm[12].y < lm[10].y
        ringCurled == lm[16].y > lm[14].y
        pinkyCurled == lm[20].y > lm[18].y
    IN  indexExt /\ middleExt /\ ringCurled /\ pinkyCurled

\* The finger heart without its test that the index finger is not curled.
isFingerHeartAnyIndex(lm) ==
    LET isClose == Closer(lm[4], lm[8], heartPinchDistance)
        othersCurled == lm[12].y > lm[10].y /\ lm[16].y > lm[14].y
                        /\ lm[20].y > lm[18].y
    IN  isClose /\ othersCurled

isFingerHeart(lm) ==
    LET isClose == Closer(lm[4], lm[8], heartPinchDistance)
        othersCurled == lm[12].y > lm[10].y /\ lm[16].y > lm[14].y
                        /\ lm[20].y > lm[18].y
        indexNotCurled == lm[8].y < lm[6].y
    IN  isClose /\ othersCurled /\ indexNotCurled

isOkSign(lm) ==
    LET isPinch == Closer(lm[4], lm[8], okPinchDistance)
        isMiddleExt == lm[12].y < lm[10].y
        isRingExt == lm[16].y < lm[14].y
        isPinkyExt == lm[20].y < lm[18].y
    IN  isPinch /\ isMiddleExt /\ isRingExt /\ isPinkyExt

\* With the thumb required to be extended as well.
isOpenPalmWithThumb(lm) ==
    /\ \A i \in 1..4 : lm[Tips[i]].y < lm[Pips[i]].y
    /\ lm[4].y < lm[2].y

isOpenPalm(lm) == \A i \in 1..4 : lm[Tips[i]].y < lm[Pips[i]].y

isFist(lm) == \A i \in 1..4 : lm[Tips[i]].y > lm[Pips[i]].y

\* checkWave, first half: push the tracking point, shift when over capacity.
trackingPointX(lm) == lm[12].x

\* With the shift left out.
pushWaveUnbounded(h, lm) == Append(h, trackingPointX(lm))

pushWave(h, lm) ==
    LET pushed == Append(h, trackingPointX(lm))
    IN  IF Len(pushed) > waveHistoryCapacity THEN Tail(pushed) ELSE pushed

\* checkWave, second half: the verdict on the history after the push.
waveSpreadInclusive(h) ==
    IF Len(h) < waveMinSamples THEN FALSE
    ELSE SetMax(Range(h)) - SetMin(Range(h)) >= waveThreshold

\* With the length test off by one: no verdict before the sixth sample.
waveSpreadLate(h) ==
    IF Len(h) <= waveMinSamples THEN FALSE
    ELSE SetMax(Range(h)) - SetMin(Range(h)) > waveThreshold

\* With the comparison turned around.
waveSpreadFlipped(h) ==
    IF Len(h) < waveMinSamples THEN FALSE
    ELSE SetMax(Range(h)) - SetMin(Range(h)) < waveThreshold

waveSpread(h) ==
    IF Len(h) < waveMinSamples THEN FALSE
    ELSE SetMax(Range(h)) - SetMin(Range(h)) > waveThreshold

checkWave(h, lm) == waveSpread(pushWave(h, lm))

staticGesturePalmFirst(lm) ==
    IF isFingerHeart(lm) THEN "finger_heart"
    ELSE IF isVictory(lm) THEN "victory"
    ELSE IF isThumbsUp(lm) THEN "thumbs_up"
    ELSE IF isOpenPalm(lm) THEN "open_palm"
    ELSE IF isOkSign(lm) THEN "ok_sign"
    ELSE IF isFist(lm) THEN "fist"
    ELSE "none"

staticGesture(lm) ==
    IF isFingerHeart(lm) THEN "finger_heart"
    ELSE IF isVictory(lm) THEN "victory"
    ELSE IF isThumbsUp(lm) THEN "thumbs_up"
    ELSE IF isOkSign(lm) THEN "ok_sign"
    ELSE IF isOpenPalm(lm) THEN "open_palm"
    ELSE IF isFist(lm) THEN "fist"
    ELSE "none"

detectGesture(h, lm) ==
    IF checkWave(h, lm) THEN "wave" ELSE staticGesture(lm)

-----------------------------------------------------------------------------
(* The classifier as a state machine *)

NoPalm == [x |-> 0, y |-> 0, z |-> 0]

\* App's fields before the first frame
InitApp ==
    /\ currentGesture = "none"
    /\ lastMeaningfulGesture = "none"
    /\ lastPalmPosition = NoPalm
    /\ handDetected = FALSE
    /\ frameCalls = <<>>
    /\ frames = 0
    /\ palmCalls = 0
    /\ recentGesture = "none"

InitGestureManager ==
    /\ waveHistory = <<>>
    /\ landmarks = BaseHand
    /\ gesture = "none"
    /\ calls = 0

DetectGesture(lm) ==
    /\ landmarks' = lm
    /\ gesture' = detectGesture(waveHistory, lm)
    /\ waveHistory' = pushWave(waveHistory, lm)
    /\ calls' = calls + 1
    /\ UNCHANGED <<engineVars, historyVars, appVars>>

\* getPalmPosition: the midpoint of the wrist and the middle-finger MCP, in
\* halves of a hundredth.
getPalmPosition(lm) ==
    [x |-> lm[0].x + lm[9].x, y |-> lm[0].y + lm[9].y, z |-> lm[0].z + lm[9].z]

\* A getPalmPosition that also feeds the wave history.
GetPalmPositionTracking(lm) ==
    /\ lastPalmPosition' = getPalmPosition(lm)
    /\ palmCalls' = palmCalls + 1
    /\ waveHistory' = pushWave(waveHistory, lm)
    /\ UNCHANGED <<landmarks, gesture, calls, engineVars, historyVars,
                   currentGesture, lastMeaningfulGesture, handDetected,
                   frameCalls, frames, recentGesture>>

GetPalmPosition(lm) ==
    /\ lastPalmPosition' = getPalmPosition(lm)
    /\ palmCalls' = palmCalls + 1
    /\ UNCHANGED <<classifierVars, engineVars, historyVars,
                   currentGesture, lastMeaningfulGesture, handDetected,
                   frameCalls, frames, recentGesture>>

NextClassifier == calls < MaxCalls /\ \E lm \in Samples : DetectGesture(lm)

\* The samples with the thumb tip at or near the index tip and the other
\* three fingers alike, in any order and with any tracking coordinate.
PinchSamples ==
    {s \in Samples :
        /\ s[16].y = s[12].y /\ s[20].y = s[12].y
        /\ Abs(s[4].x - s[8].x) <= heartPinchDistance
        /\ Abs(s[4].y - s[8].y) <= heartPinchDistance}

NextPinch == calls < MaxCalls /\ \E lm \in PinchSamples : DetectGesture(lm)

\* One sample, whichever it is, given to detectGesture again and again.
NextRepeat ==
    /\ calls < MaxRepeats
    /\ \E lm \in Samples : (calls = 0 \/ lm = landmarks) /\ DetectGesture(lm)

\* A long run of calls: a sample is held for HoldCalls calls of
\* detectGesture, and getPalmPosition is called on it at any point.
NextSweep ==
    \/ /\ calls < MaxSweepCalls
       /\ \E lm \in SweepSamples :
              (calls % HoldCalls = 0 \/ lm = landmarks) /\ DetectGesture(lm)
    \/ /\ palmCalls < MaxPalmCalls
       /\ GetPalmPosition(landmarks)

-----------------------------------------------------------------------------
(* ParticleTextRenderer: numbers                                           *)
(*                                                                         *)
(* A position component is an integer number of position units, Unit to   *)
(* the world unit (2^-13 each).  The buffers are Float32Arrays: a store    *)
(* rounds to the nearest float32, whose spacing is one position unit for   *)
(* magnitudes in [1024, 2048) world units and doubles with every further   *)
(* power of two; below 1024 the float32 grid is finer than the position    *)
(* unit and the store rounds to the unit.                                  *)

Unit == 8192

\* Program constants, in world units or as the source writes them
parkedZ == -1000
explosionFactor == 8
explosionDistance == 10
updateThresholdInverse == 1000      \* updateThreshold = 0.001 = 1 / 1000
textTransitionSpeed == 8            \* 0.08, in hundredths
fistBallTransitionSpeed == 15       \* 0.15
explosionTransitionSpeed == 12      \* 0.12
canvasWidth == 1024
canvasHeight == 512
samplingStep == 6
cyan == 65535                       \* 0x00ffff, the material's first colour
neonGreen == 65280                  \* 0x00FF00
neonPink == 16716947                \* 0xFF1493
neonOrange == 16753920              \* 0xFFA500

Particles == 0..(particleCount - 1)

Min2(a, b) == IF a < b THEN a ELSE b

\* n / d rounded to the nearest integer (d > 0)
RoundDiv(n, d) == (2 * n + d) \div (2 * d)

\* The float32 spacing, in position units, at magnitude a.
Spacing(a) ==
    IF a < 16777216 THEN 1
    ELSE IF a < 33554432 THEN 2
    ELSE IF a < 67108864 THEN 4
    ELSE IF a < 134217728 THEN 8
    ELSE IF a < 268435456 THEN 16
    ELSE IF a < 536870912 THEN 32
    ELSE IF a < 1073741824 THEN 64
    ELSE 128

\* The Float32Array store of the exact value whole + hundredths / 100
\* (0 <= hundredths < 100): round to nearest, ties to even.
fround(whole, hundredths) ==
    LET g == Spacing(Abs(whole))
        lo == (whole \div g) * g
        twice == 2 * (100 * (whole - lo) + hundredths)
    IN  IF twice < 100 * g THEN lo
        ELSE IF twice > 100 * g THEN lo + g
        ELSE IF (lo \div g) % 2 = 0 THEN lo
        ELSE lo + g

froundVec(v) == <<fround(v[1], 0), fround(v[2], 0), fround(v[3], 0)>>

parkedTarget == <<0, 0, parkedZ * Unit>>

\* Math.abs(diff) > this.updateThreshold
exceedsThreshold(diff) == Abs(diff) > Unit \div updateThresholdInverse

\* The step with the speed taken ten times too large (0.8, 1.5, 1.2).
stepComponentTenfold(position, target, speed) ==
    LET diff == target - position
        a == diff \div 100
        b == diff % 100
    IN  IF exceedsThreshold(diff)
        THEN fround(position + a * speed * 10 + (b * speed) \div 10,
                    ((b * speed) % 10) * 10)
        ELSE position

\* The step without the threshold test, as update() was before the dirty
\* flag: every component moves on every call.
stepComponentUnconditional(position, target, speed) ==
    LET diff == target - position
        a == diff \div 100
        b == diff % 100
    IN  fround(position + a * speed + (b * speed) \div 100, (b * speed) % 100)

\* positions[i] += diff * currentTransitionSpeed, the product taken exactly
\* (diff = 100 a + b) and the sum stored as a float32.
stepComponent(position, target, speed) ==
    LET diff == target - position
        a == diff \div 100
        b == diff % 100
    IN  IF exceedsThreshold(diff)
        THEN fround(position + a * speed + (b * speed) \div 100,
                    (b * speed) % 100)
        ELSE position

stepParticle(p, t, speed) ==
    <<stepComponent(p[1], t[1], speed), stepComponent(p[2], t[2], speed),
      stepComponent(p[3], t[3], speed)>>

\* Math.sqrt(x*x + y*y + z*z) > 10, on squares; a component c <= R = 256 * 320
\* is split as 256 h + l to keep the sums in range.
farFromCenter(v) ==
    LET R == explosionDistance * Unit
        a == <<Abs(v[1]), Abs(v[2]), Abs(v[3])>>
        h(k) == a[k] \div 256
        l(k) == a[k] % 256
        H == h(1) * h(1) + h(2) * h(2) + h(3) * h(3)
        M == (512 * h(1) * l(1) + l(1) * l(1)) + (512 * h(2) * l(2) + l(2) * l(2))
             + (512 * h(3) * l(3) + l(3) * l(3))
        q == (R \div 256) * (R \div 256) - H
    IN  IF a[1] > R \/ a[2] > R \/ a[3] > R THEN TRUE
        ELSE IF q <= 0 THEN q < 0 \/ M > 0
        ELSE IF q > 2000 THEN FALSE
        ELSE M > 65536 * q

-----------------------------------------------------------------------------
(* ParticleTextRenderer: text rasterization *)

\* The bitmap the canvas draws for a text: the pixels whose red channel is
\* above 128.  "" draws nothing, "." one small dot, "ByeBye" more sampled
\* pixels than there are particles.
Texts == {"", ".", "ByeBye"}

\* The texts App asks for, the Chinese ones and the emoji written in Latin
\* letters: "你好阿里云", "OK", "ByeBye", "Yeah!! ✌️", "比心 ❤️", "点赞 👍".
AppTexts == {"NiHaoALiYun", "OK", "ByeBye", "Yeah!!", "BiXin", "DianZan"}

brightPixels(text) ==
    CASE text = "" -> {}
      [] text = "." -> {<<510, 252>>, <<511, 253>>}
      [] text = "NiHaoALiYun" ->
            {<<474, 240>>, <<486, 246>>, <<498, 252>>, <<510, 258>>, <<523, 259>>}
      [] text = "OK" -> {<<504, 252>>, <<516, 258>>, <<517, 259>>}
      [] text = "Yeah!!" -> {<<492, 252>>, <<528, 252>>}
      [] text = "BiXin" -> {<<498, 246>>}
      [] text = "DianZan" -> {<<498, 252>>, <<510, 264>>, <<522, 264>>}
      [] text = "ByeBye" ->
            {<<480, 246>>, <<492, 246>>, <<486, 249>>, <<504, 252>>,
             <<516, 252>>, <<528, 258>>, <<540, 258>>}

RECURSIVE rasterOrder(_)
rasterOrder(S) ==
    IF S = {} THEN <<>>
    ELSE LET first == CHOOSE p \in S : \A q \in S :
                          p[2] * canvasWidth + p[1] <= q[2] * canvasWidth + q[1]
         IN  <<first>> \o rasterOrder(S \ {first})

\* generateTextPoints: the bright pixels on the sampling grid, rows top to
\* bottom and left to right within a row, as {x: (x - 512) * 0.02,
\* y: -(y - 256) * 0.02}, kept here in hundredths.
generateTextPoints(text) ==
    LET sampled == {p \in brightPixels(text) :
                        p[1] % samplingStep = 0 /\ p[2] % samplingStep = 0}
        ordered == rasterOrder(sampled)
    IN  [i \in 1..Len(ordered) |->
            [x |-> (ordered[i][1] - canvasWidth \div 2) * 2,
             y |-> -((ordered[i][2] - canvasHeight \div 2) * 2)]]

\* validPoints[i].x * scale (1.5) as a stored target component
textTarget(c) == RoundDiv(c * 15 * Unit, 1000)

\* makeFluorescent: the table, and the colour itself when the table has none
makeFluorescent(color) ==
    CASE color = 65280 -> 65280            \* 0x00ff00 -> 0x00FF00
      [] color = 16776960 -> 13434624      \* 0xffff00 -> 0xCCFF00
      [] color = 16711935 -> 16716947      \* 0xff00ff -> 0xFF1493
      [] color = 65535 -> 65535            \* 0x00ffff -> 0x00FFFF
      [] color = 16738740 -> 16716947      \* 0xff69b4 -> 0xFF1493
      [] color = 4491519 -> 65535          \* 0x4488ff -> 0x00FFFF
      [] color = 16711680 -> 16716947      \* 0xff0000 -> 0xFF1493
      [] color = 16755200 -> 16753920      \* 0xffaa00 -> 0xFFA500
      [] color = 11184810 -> 65280         \* 0xaaaaaa -> 0x00FF00
      [] OTHER -> color

\* Colours passed to updateText: magenta and hot pink (one fluorescent
\* colour), yellow, and the default parameter.
Colors == {16711935, 16738740, 16776960}

\* `${text}_${fluorescentColor}`
cacheKey(text, fluorescentColor) == <<text, fluorescentColor>>

cacheHas(cache, key) == \E i \in DOMAIN cache : cache[i].key = key

cacheGet(cache, key) ==
    cache[CHOOSE i \in DOMAIN cache : cache[i].key = key]

\* textCache after a miss: drop the first key when the size is over the
\* limit, then set the new entry.
cacheSet(cache, key, points, color) ==
    LET kept == IF Len(cache) > textCacheLimit THEN Tail(cache) ELSE cache
    IN  Append(kept, [key |-> key, points |-> points, color |-> color])

\* updateText without the cache lookup: the points are generated and set on
\* every call.
textLookupUncached(cache, text, color) ==
    LET generated == generateTextPoints(text)
    IN  [points |-> generated,
         cache |-> cacheSet(cache, cacheKey(text, makeFluorescent(color)),
                            generated, makeFluorescent(color))]

\* The key that was first in the cache and is gone from it, if any.
evictedKey(before, after, previous) ==
    IF before # <<>> /\ (after = <<>> \/ after[1].key # before[1].key)
    THEN before[1].key
    ELSE previous

\* updateText with a hit moving the entry to the end of the cache, as a
\* least-recently-used cache would.
textLookupRefreshing(cache, text, color) ==
    LET key == cacheKey(text, makeFluorescent(color))
    IN  IF cacheHas(cache, key)
        THEN [points |-> cacheGet(cache, key).points,
              cache |-> Append(SelectSeq(cache, LAMBDA e : e.key # key),
                               cacheGet(cache, key))]
        ELSE LET generated == generateTextPoints(text)
             IN  [points |-> generated,
                  cache |-> cacheSet(cache, key, generated,
                                     makeFluorescent(color))]

\* The points updateText uses, and the cache it leaves.
textLookup(cache, text, color) ==
    LET key == cacheKey(text, makeFluorescent(color))
    IN  IF cacheHas(cache, key)
        THEN [points |-> cacheGet(cache, key).points, cache |-> cache]
        ELSE LET generated == generateTextPoints(text)
             IN  [points |-> generated,
                  cache |-> cacheSet(cache, key, generated,
                                     makeFluorescent(color))]

\* The target loop without its else branch: the particles beyond the points
\* keep the targets they had.
textTargetsUnparked(validPoints) ==
    [i \in Particles |->
        IF i < Len(validPoints)
        THEN <<textTarget(validPoints[i + 1].x), textTarget(validPoints[i + 1].y), 0>>
        ELSE targetPositions[i]]

textTargets(validPoints) ==
    [i \in Particles |->
        IF i < Len(validPoints)
        THEN <<textTarget(validPoints[i + 1].x), textTarget(validPoints[i + 1].y), 0>>
        ELSE parkedTarget]

textActiveCount(validPoints) == Len(validPoints)

-----------------------------------------------------------------------------
(* ParticleTextRenderer: the commands *)

\* A palm position {x, y, z} is in normalized camera coordinates, in halves
\* of a hundredth (the midpoint of two landmarks).
Anchors == {[x |-> 80, y |-> 120, z |-> -10], [x |-> 140, y |-> 60, z |-> 20]}

\* The conversion without the flip of y.
worldCenterUnflipped(palmPosition) ==
    <<RoundDiv((palmPosition.x - 100) * Unit, 10),
      RoundDiv((palmPosition.y - 100) * 3 * Unit, 40),
      RoundDiv(palmPosition.z * Unit, 20)>>

\* (palmPosition.x - 0.5) * 20, -(palmPosition.y - 0.5) * 15, palmPosition.z * 10
worldCenter(palmPosition) ==
    <<RoundDiv((palmPosition.x - 100) * Unit, 10),
      -RoundDiv((palmPosition.y - 100) * 3 * Unit, 40),
      RoundDiv(palmPosition.z * Unit, 20)>>

\* createFistBall(palmPosition?): the origin when no palm position is given
ballCenter(given, palmPosition) ==
    IF given THEN worldCenter(palmPosition) ELSE <<0, 0, 0>>

vecAdd(a, b) == <<a[1] + b[1], a[2] + b[2], a[3] + b[3]>>

\* The constructor's Math.random() draws for currentPositions and
\* targetPositions, (Math.random() - 0.5) * 10 per component.
InitialLayouts ==
    {[i \in Particles |-> <<4096 * i, -4096 * i, 2048>>],
     [i \in Particles |-> <<-16384, 8192 * i, -32768>>]}

\* resetParticles' draws: (Math.random() - 0.5) * 30, * 20, * 10.
ScatterDraws ==
    {[i \in Particles |-> <<8192 * i, 8192, -8192>>],
     [i \in Particles |-> <<-122880, -81920, -40960>>]}

\* createFistBall's draws: a point at distance 3 +/- 0.25 from the centre.
OffsetDraws ==
    {[i \in Particles |-> IF i % 2 = 0 THEN <<24576, 0, 0>> ELSE <<0, -24576, 0>>],
     [i \in Particles |-> IF i % 2 = 0 THEN <<16384, 16384, 8192>> ELSE <<0, 0, -22528>>]}

\* explode's draws: (Math.random() - 0.5) * 15 per component.
JitterDraws ==
    {[i \in Particles |-> <<0, 0, 0>>],
     [i \in Particles |-> <<-61440, 61439, 8192 * (i + 1)>>]}

\* const particlesToExplode = this.isFistBallActive ? this.particleCount
\*                                                  : this.activeParticleCount
particlesToExplode(ballActive, activeCount) ==
    IF ballActive THEN particleCount ELSE activeCount

explodeTarget(position, jitter) ==
    froundVec(<<position[1] * explosionFactor + jitter[1],
                position[2] * explosionFactor + jitter[2],
                position[3] * explosionFactor + jitter[3]>>)

\* isExplosionState: more than half of the first sampled targets are further
\* than 10 from the centre.
isExplosionState(targets) ==
    LET sampleSize == Min2(explosionSampleLimit, particleCount)
        outwardMovingCount ==
            Cardinality({i \in 0..(sampleSize - 1) : farFromCenter(targets[i])})
    IN  2 * outwardMovingCount > sampleSize

\* update()'s choice of currentTransitionSpeed
transitionSpeed(ballActive, targets) ==
    IF ballActive THEN fistBallTransitionSpeed
    ELSE IF isExplosionState(targets) THEN explosionTransitionSpeed
    ELSE textTransitionSpeed

\* The movement test on x alone.
componentMovesXOnly(p, t) == exceedsThreshold(t[1] - p[1])

componentMoves(p, t) ==
    exceedsThreshold(t[1] - p[1]) \/ exceedsThreshold(t[2] - p[2])
        \/ exceedsThreshold(t[3] - p[3])

-----------------------------------------------------------------------------
(* The renderer as a state machine *)

NoArgs ==
    [text |-> "", color |-> 0, given |-> FALSE,
     palmPosition |-> [x |-> 0, y |-> 0, z |-> 0]]

InitRenderer(current, target) ==
    /\ currentPositions = current
    /\ targetPositions = target
    /\ fistBallOffsets = [i \in Particles |-> <<0, 0, 0>>]
    /\ fistBallCenter = <<0, 0, 0>>
    /\ isFistBallActive = FALSE
    /\ activeParticleCount = 0
    /\ needsUpdate = TRUE
    /\ textCache = <<>>
    /\ materialColor = cyan
    /\ currentTransitionSpeed = 0
    /\ updateRanges = <<>>
    /\ lastCommand = "none"
    /\ lastCall = "constructor"
    /\ lastArgs = NoArgs
    /\ sameAsPrevious = FALSE
    /\ lastEvicted = <<>>

\* A renderer that receives no calls
InitRendererIdle ==
    /\ LET layout == CHOOSE l \in InitialLayouts : TRUE
       IN  InitRenderer(layout, layout)
    /\ cmdsLeft = 0
    /\ stepsLeft = 0

\* A behaviour with a limit on its update() calls issues commands at any
\* time; one without (stepsLeft = -1) issues a command only when the
\* renderer is idle, or first after construction.
Command(name, args) ==
    /\ cmdsLeft > 0
    /\ stepsLeft >= 0 \/ ~needsUpdate \/ lastCall = "constructor"
    /\ cmdsLeft' = cmdsLeft - 1
    /\ lastCall' = name
    /\ lastArgs' = args
    /\ sameAsPrevious' = (lastCall = name /\ lastArgs = args)
    /\ lastEvicted' =
          IF name = "updateText"
          THEN evictedKey(textCache,
                          textLookup(textCache, args.text, args.color).cache,
                          lastEvicted)
          ELSE lastEvicted
    /\ lastCommand' = IF name = "updateFistBallPosition" THEN lastCommand ELSE name
    /\ UNCHANGED <<stepsLeft, classifierVars, appVars>>

UpdateText(text, color) ==
    LET found == textLookup(textCache, text, color)
    IN  /\ Command("updateText", [NoArgs EXCEPT !.text = text, !.color = color])
        /\ materialColor' = makeFluorescent(color)
        /\ textCache' = found.cache
        /\ activeParticleCount' = textActiveCount(found.points)
        /\ targetPositions' = textTargets(found.points)
        /\ needsUpdate' = TRUE
        /\ UNCHANGED <<currentPositions, fistBallOffsets, fistBallCenter,
                       isFistBallActive, currentTransitionSpeed, updateRanges>>

\* explode() that moves the exploded particles at once as well: the scaled
\* values are written to the position buffer too.
ExplodeWritingPositions(jitter) ==
    LET count == particlesToExplode(isFistBallActive, activeParticleCount)
        scaled == [i \in Particles |->
                      IF i < count THEN explodeTarget(currentPositions[i], jitter[i])
                      ELSE parkedTarget]
    IN  /\ Command("explode", NoArgs)
        /\ \A i \in Particles : \A k \in 1..3 :
              Abs(currentPositions[i][k]) <= MaxCoordinate
        /\ materialColor' = neonPink
        /\ targetPositions' = scaled
        /\ currentPositions' =
              [i \in Particles |->
                  IF i < count THEN scaled[i] ELSE currentPositions[i]]
        /\ isFistBallActive' = FALSE
        /\ activeParticleCount' = count
        /\ needsUpdate' = TRUE
        /\ UNCHANGED <<fistBallOffsets, fistBallCenter, textCache,
                       currentTransitionSpeed, updateRanges>>

Explode(jitter) ==
    LET count == particlesToExplode(isFistBallActive, activeParticleCount)
    IN  /\ Command("explode", NoArgs)
        /\ \A i \in Particles : \A k \in 1..3 :
              Abs(currentPositions[i][k]) <= MaxCoordinate
        /\ materialColor' = neonPink
        /\ targetPositions' =
              [i \in Particles |->
                  IF i < count THEN explodeTarget(currentPositions[i], jitter[i])
                  ELSE parkedTarget]
        /\ isFistBallActive' = FALSE
        /\ activeParticleCount' = count
        /\ needsUpdate' = TRUE
        /\ UNCHANGED <<currentPositions, fistBallOffsets, fistBallCenter,
                       textCache, currentTransitionSpeed, updateRanges>>

CreateFistBall(given, palmPosition, offsets) ==
    LET ballParticleCount == Min2(ballParticleLimit, particleCount)
        center == ballCenter(given, palmPosition)
    IN  /\ Command("createFistBall",
                   [NoArgs EXCEPT !.given = given,
                                  !.palmPosition = IF given THEN palmPosition
                                                   ELSE NoArgs.palmPosition])
        /\ materialColor' = neonOrange
        /\ fistBallCenter' = center
        /\ activeParticleCount' = ballParticleCount
        /\ fistBallOffsets' =
              [i \in Particles |->
                  IF i < ballParticleCount THEN froundVec(offsets[i])
                  ELSE fistBallOffsets[i]]
        /\ targetPositions' =
              [i \in Particles |->
                  IF i < ballParticleCount
                  THEN froundVec(vecAdd(center, offsets[i]))
                  ELSE parkedTarget]
        /\ isFistBallActive' = TRUE
        /\ needsUpdate' = TRUE
        /\ UNCHANGED <<currentPositions, textCache, currentTransitionSpeed,
                       updateRanges>>

UpdateFistBallPosition(palmPosition) ==
    /\ Command("updateFistBallPosition",
               [NoArgs EXCEPT !.given = TRUE, !.palmPosition = palmPosition])
    /\ IF ~isFistBallActive
       THEN UNCHANGED engineVars
       ELSE /\ fistBallCenter' = worldCenter(palmPosition)
            /\ targetPositions' =
                  [i \in Particles |->
                      IF i < activeParticleCount
                      THEN froundVec(vecAdd(worldCenter(palmPosition),
                                            fistBallOffsets[i]))
                      ELSE targetPositions[i]]
            /\ needsUpdate' = TRUE
            /\ UNCHANGED <<currentPositions, fistBallOffsets, isFistBallActive,
                           activeParticleCount, textCache, materialColor,
                           currentTransitionSpeed, updateRanges>>

\* resetParticles without its this.isFistBallActive = false.
ResetParticlesKeepingCluster(draws) ==
    LET randomParticleCount == Min2(randomParticleLimit, particleCount)
    IN  /\ Command("resetParticles", NoArgs)
        /\ materialColor' = neonGreen
        /\ activeParticleCount' = randomParticleCount
        /\ targetPositions' =
              [i \in Particles |->
                  IF i < randomParticleCount THEN froundVec(draws[i])
                  ELSE parkedTarget]
        /\ needsUpdate' = TRUE
        /\ UNCHANGED <<currentPositions, fistBallOffsets, fistBallCenter,
                       isFistBallActive, textCache, currentTransitionSpeed,
                       updateRanges>>

ResetParticles(draws) ==
    LET randomParticleCount == Min2(randomParticleLimit, particleCount)
    IN  /\ Command("resetParticles", NoArgs)
        /\ materialColor' = neonGreen
        /\ activeParticleCount' = randomParticleCount
        /\ targetPositions' =
              [i \in Particles |->
                  IF i < randomParticleCount THEN froundVec(draws[i])
                  ELSE parkedTarget]
        /\ isFistBallActive' = FALSE
        /\ needsUpdate' = TRUE
        /\ UNCHANGED <<currentPositions, fistBallOffsets, fistBallCenter,
                       textCache, currentTransitionSpeed, updateRanges>>

Update ==
    LET speed == transitionSpeed(isFistBallActive, targetPositions)
        hasMovement ==
            \E i \in Particles :
                componentMoves(currentPositions[i], targetPositions[i])
        changedParticles ==
            Cardinality({i \in Particles :
                exceedsThreshold(targetPositions[i][1] - currentPositions[i][1])})
    IN  /\ stepsLeft # 0
        /\ stepsLeft' = IF stepsLeft > 0 THEN stepsLeft - 1 ELSE stepsLeft
        /\ lastCall' = "update"
        /\ lastArgs' = NoArgs
        /\ sameAsPrevious' = (lastCall = "update")
        /\ UNCHANGED <<lastCommand, lastEvicted, cmdsLeft, classifierVars,
                       appVars>>
        /\ IF ~needsUpdate
           THEN UNCHANGED engineVars
           ELSE /\ currentTransitionSpeed' = speed
                /\ currentPositions' =
                      [i \in Particles |->
                          stepParticle(currentPositions[i], targetPositions[i],
                                       speed)]
                /\ needsUpdate' = hasMovement
                /\ updateRanges' =
                      IF hasMovement /\ changedParticles * 10 < particleCount
                      THEN <<[start |-> 0, count |-> changedParticles * 3]>>
                      ELSE updateRanges
                /\ UNCHANGED <<targetPositions, fistBallOffsets, fistBallCenter,
                               isFistBallActive, activeParticleCount, textCache,
                               materialColor>>

NextRenderer ==
    \/ \E text \in Texts, color \in Colors : UpdateText(text, color)
    \/ \E jitter \in JitterDraws : Explode(jitter)
    \/ \E given \in BOOLEAN, palmPosition \in Anchors, offsets \in OffsetDraws :
          CreateFistBall(given, palmPosition, offsets)
    \/ \E palmPosition \in Anchors : UpdateFistBallPosition(palmPosition)
    \/ \E draws \in ScatterDraws : ResetParticles(draws)
    \/ Update

\* The commands in any order, with a few update() calls in flight.
InitEngine ==
    /\ InitGestureManager
    /\ InitApp
    /\ \E current \in InitialLayouts, target \in InitialLayouts :
          InitRenderer(current, target)
    /\ cmdsLeft = MaxCommands
    /\ stepsLeft = MaxUpdates

SpecEngine == InitEngine /\ [][NextRenderer]_vars

\* A command, then update() every frame until the renderer is idle, then the
\* next command.  The animation loop calls update() in every frame.
InitSettle(commands) ==
    /\ InitGestureManager
    /\ InitApp
    /\ \E current \in InitialLayouts, target \in InitialLayouts :
          InitRenderer(current, target)
    /\ cmdsLeft = commands
    /\ stepsLeft = -1

SpecSettle ==
    InitSettle(MaxSettledCommands) /\ [][NextRenderer]_vars /\ WF_vars(Update)

SpecStall ==
    InitSettle(MaxStallCommands) /\ [][NextRenderer]_vars /\ WF_vars(Update)

InitClassifier == InitGestureManager /\ InitApp /\ InitRendererIdle

SpecClassifier == InitClassifier /\ [][NextClassifier]_vars

SpecRepeat == InitClassifier /\ [][NextRepeat]_vars

SpecSweep == InitClassifier /\ [][NextSweep]_vars

SpecPinch == InitClassifier /\ [][NextPinch]_vars

\* updateText calls only, enough of them to fill the cache and go on.
InitCache ==
    /\ InitGestureManager
    /\ InitApp
    /\ LET layout == CHOOSE l \in InitialLayouts : TRUE
       IN  InitRenderer(layout, layout)
    /\ cmdsLeft = MaxCacheCommands
    /\ stepsLeft = 0

NextCache == \E text \in Texts, color \in Colors : UpdateText(text, color)

SpecCache == InitCache /\ [][NextCache]_vars

-----------------------------------------------------------------------------
(* ParticleTextRenderer: the methods as functions of the renderer's fields *)

Engine ==
    [currentPositions |-> currentPositions,
     targetPositions |-> targetPositions,
     fistBallOffsets |-> fistBallOffsets,
     fistBallCenter |-> fistBallCenter,
     isFistBallActive |-> isFistBallActive,
     activeParticleCount |-> activeParticleCount,
     needsUpdate |-> needsUpdate,
     textCache |-> textCache,
     materialColor |-> materialColor,
     currentTransitionSpeed |-> currentTransitionSpeed,
     updateRanges |-> updateRanges]

EngineIs(e) ==
    /\ currentPositions = e.currentPositions
    /\ targetPositions = e.targetPositions
    /\ fistBallOffsets = e.fistBallOffsets
    /\ fistBallCenter = e.fistBallCenter
    /\ isFistBallActive = e.isFistBallActive
    /\ activeParticleCount = e.activeParticleCount
    /\ needsUpdate = e.needsUpdate
    /\ textCache = e.textCache
    /\ materialColor = e.materialColor
    /\ currentTransitionSpeed = e.currentTransitionSpeed
    /\ updateRanges = e.updateRanges

EngineBecomes(e) ==
    /\ currentPositions' = e.currentPositions
    /\ targetPositions' = e.targetPositions
    /\ fistBallOffsets' = e.fistBallOffsets
    /\ fistBallCenter' = e.fistBallCenter
    /\ isFistBallActive' = e.isFistBallActive
    /\ activeParticleCount' = e.activeParticleCount
    /\ needsUpdate' = e.needsUpdate
    /\ textCache' = e.textCache
    /\ materialColor' = e.materialColor
    /\ currentTransitionSpeed' = e.currentTransitionSpeed
    /\ updateRanges' = e.updateRanges

constructed(current, target) ==
    [currentPositions |-> current,
     targetPositions |-> target,
     fistBallOffsets |-> [i \in Particles |-> <<0, 0, 0>>],
     fistBallCenter |-> <<0, 0, 0>>,
     isFistBallActive |-> FALSE,
     activeParticleCount |-> 0,
     needsUpdate |-> TRUE,
     textCache |-> <<>>,
     materialColor |-> cyan,
     currentTransitionSpeed |-> 0,
     updateRanges |-> <<>>]

updateText(e, text, color) ==
    LET found == textLookup(e.textCache, text, color)
    IN  [e EXCEPT !.materialColor = makeFluorescent(color),
                  !.textCache = found.cache,
                  !.activeParticleCount = textActiveCount(found.points),
                  !.targetPositions = textTargets(found.points),
                  !.needsUpdate = TRUE]

explode(e, jitter) ==
    LET count == particlesToExplode(e.isFistBallActive, e.activeParticleCount)
    IN  [e EXCEPT !.materialColor = neonPink,
                  !.targetPositions =
                      [i \in Particles |->
                          IF i < count
                          THEN explodeTarget(e.currentPositions[i], jitter[i])
                          ELSE parkedTarget],
                  !.isFistBallActive = FALSE,
                  !.activeParticleCount = count,
                  !.needsUpdate = TRUE]

createFistBall(e, given, palmPosition, offsets) ==
    LET ballParticleCount == Min2(ballParticleLimit, particleCount)
        center == ballCenter(given, palmPosition)
    IN  [e EXCEPT !.materialColor = neonOrange,
                  !.fistBallCenter = center,
                  !.activeParticleCount = ballParticleCount,
                  !.fistBallOffsets =
                      [i \in Particles |->
                          IF i < ballParticleCount THEN froundVec(offsets[i])
                          ELSE e.fistBallOffsets[i]],
                  !.targetPositions =
                      [i \in Particles |->
                          IF i < ballParticleCount
                          THEN froundVec(vecAdd(center, offsets[i]))
                          ELSE parkedTarget],
                  !.isFistBallActive = TRUE,
                  !.needsUpdate = TRUE]

updateFistBallPosition(e, palmPosition) ==
    IF ~e.isFistBallActive THEN e
    ELSE [e EXCEPT !.fistBallCenter = worldCenter(palmPosition),
                   !.targetPositions =
                       [i \in Particles |->
                           IF i < e.activeParticleCount
                           THEN froundVec(vecAdd(worldCenter(palmPosition),
                                                 e.fistBallOffsets[i]))
                           ELSE e.targetPositions[i]],
                   !.needsUpdate = TRUE]

resetParticles(e, draws) ==
    LET randomParticleCount == Min2(randomParticleLimit, particleCount)
    IN  [e EXCEPT !.materialColor = neonGreen,
                  !.activeParticleCount = randomParticleCount,
                  !.targetPositions =
                      [i \in Particles |->
                          IF i < randomParticleCount THEN froundVec(draws[i])
                          ELSE parkedTarget],
                  !.isFistBallActive = FALSE,
                  !.needsUpdate = TRUE]

update(e) ==
    LET speed == transitionSpeed(e.isFistBallActive, e.targetPositions)
        hasMovement ==
            \E i \in Particles :
                componentMoves(e.currentPositions[i], e.targetPositions[i])
        changedParticles ==
            Cardinality({i \in Particles :
                exceedsThreshold(e.targetPositions[i][1]
                                     - e.currentPositions[i][1])})
    IN  IF ~e.needsUpdate THEN e
        ELSE [e EXCEPT !.currentTransitionSpeed = speed,
                       !.currentPositions =
                           [i \in Particles |->
                               stepParticle(e.currentPositions[i],
                                            e.targetPositions[i], speed)],
                       !.needsUpdate = hasMovement,
                       !.updateRanges =
                           IF hasMovement /\ changedParticles * 10 < particleCount
                           THEN <<[start |-> 0, count |-> changedParticles * 3]>>
                           ELSE e.updateRanges]

isFistBallEffect(e) == e.isFistBallActive

-----------------------------------------------------------------------------
(* App *)

\* A hand x further along: every landmark moved by dx.
MovedBy(lm, dx) == [i \in 0..20 |-> [lm[i] EXCEPT !.x = @ + dx]]

\* What the tracker reports in a frame with a hand: a fist, the same fist
\* moved by 0.16, an open palm, a thumbs-up, and a lone index finger (no
\* gesture).
AppSamples ==
    {FistHand(50), MovedBy(FistHand(50), 16), PalmHand(50),
     Hand(80, 80, 80, 80, <<90, 50>>, 50), Hand(30, 80, 80, 80, <<70, 85>>, 50)}

\* A call animate() makes, with its arguments.
Call(name) == [call |-> name, text |-> "", palmPosition |-> NoPalm]

TextCall(text) == [Call("updateText") EXCEPT !.text = text]

PalmCall(name, palmPosition) == [Call(name) EXCEPT !.palmPosition = palmPosition]

\* handleGestureChange's updateText arguments
gestureText(g) ==
    CASE g = "open_palm" -> [text |-> "NiHaoALiYun", color |-> 65280]
      [] g = "ok_sign" -> [text |-> "OK", color |-> 16776960]
      [] g = "wave" -> [text |-> "ByeBye", color |-> 16711935]
      [] g = "victory" -> [text |-> "Yeah!!", color |-> 65535]
      [] g = "finger_heart" -> [text |-> "BiXin", color |-> 16738740]
      [] g = "thumbs_up" -> [text |-> "DianZan", color |-> 4491519]

\* handleGestureChange with the open palm always showing its text.
handleGestureChangeTextOnly(ec, g, palmPosition, lastMeaningful, offsets, jitter) ==
    IF g = "fist"
    THEN [engine |-> createFistBall(ec.engine, TRUE, palmPosition, offsets),
          calls |-> Append(ec.calls, PalmCall("createFistBall", palmPosition))]
    ELSE IF g = "none" THEN ec
    ELSE [engine |-> updateText(ec.engine, gestureText(g).text, gestureText(g).color),
          calls |-> Append(ec.calls, TextCall(gestureText(g).text))]

\* handleGestureChange: the renderer and the calls so far, with the call
\* the new gesture asks for.
handleGestureChange(ec, g, palmPosition, lastMeaningful, offsets, jitter) ==
    IF g = "open_palm" /\ lastMeaningful = "fist" /\ isFistBallEffect(ec.engine)
    THEN [engine |-> explode(ec.engine, jitter),
          calls |-> Append(ec.calls, Call("explode"))]
    ELSE IF g = "fist"
    THEN [engine |-> createFistBall(ec.engine, TRUE, palmPosition, offsets),
          calls |-> Append(ec.calls, PalmCall("createFistBall", palmPosition))]
    ELSE IF g = "none" THEN ec
    ELSE [engine |-> updateText(ec.engine, gestureText(g).text, gestureText(g).color),
          calls |-> Append(ec.calls, TextCall(gestureText(g).text))]

\* animate(): the wave history after the frame.  Without a hand
\* detectGesture is not called.
historyAfterFrameAlways(h, detected, lm) == pushWave(h, lm)

historyAfterFrame(h, detected, lm) == IF detected THEN pushWave(h, lm) ELSE h

\* animate(): "Update fist ball position if active"
followStep(ec, current, palmPosition) ==
    IF current = "fist" /\ isFistBallEffect(ec.engine)
    THEN [engine |-> updateFistBallPosition(ec.engine, palmPosition),
          calls |-> Append(ec.calls,
                           PalmCall("updateFistBallPosition", palmPosition))]
    ELSE ec

\* The gesture left behind recorded even when it is none.
meaningfulGestureAny(current, lastMeaningful) == current

\* lastMeaningfulGesture when handleGestureChange is called
meaningfulGesture(current, lastMeaningful) ==
    IF current # "none" THEN current ELSE lastMeaningful

\* The gesture handled in every frame, changed or not.
changeStepEveryFrame(ec, g, current, lastMeaningful, palmPosition, offsets, jitter) ==
    handleGestureChange(ec, g, palmPosition,
                        meaningfulGesture(current, lastMeaningful),
                        offsets, jitter)

\* The renderer advanced before the gesture is handled.
changeStepAfterUpdate(ec, g, current, lastMeaningful, palmPosition, offsets, jitter) ==
    IF g # current
    THEN handleGestureChange([engine |-> update(ec.engine),
                              calls |-> Append(ec.calls, Call("update"))],
                             g, palmPosition,
                             meaningfulGesture(current, lastMeaningful),
                             offsets, jitter)
    ELSE ec

\* animate(): if (gesture !== this.currentGesture) ...
changeStep(ec, g, current, lastMeaningful, palmPosition, offsets, jitter) ==
    IF g # current
    THEN handleGestureChange(ec, g, palmPosition,
                             meaningfulGesture(current, lastMeaningful),
                             offsets, jitter)
    ELSE ec

\* animate(): "No hands detected"
lostStep(ec, current, draws) ==
    IF current # "none"
    THEN [engine |-> resetParticles(ec.engine, draws),
          calls |-> Append(ec.calls, Call("resetParticles"))]
    ELSE ec

\* animate(): this.particleRenderer.update()
updateStep(ec) ==
    [engine |-> update(ec.engine), calls |-> Append(ec.calls, Call("update"))]

LastCommandOf(log, before) ==
    LET commands == SelectSeq(log, LAMBDA c :
                        c.call \in {"updateText", "explode", "createFistBall",
                                    "resetParticles"})
    IN  IF commands = <<>> THEN before ELSE commands[Len(commands)].call

\* One frame of animate(): detectHands' result is detected (a hand with
\* landmarks lm, or none); offsets, jitter and draws are the Math.random()
\* values of the command the frame issues, if any.
Frame(detected, lm, offsets, jitter, draws) ==
    LET g == detectGesture(waveHistory, lm)
        palm == getPalmPosition(lm)
        start == [engine |-> Engine, calls |-> <<>>]
        classified ==
            [start EXCEPT !.calls = <<Call("detectGesture"),
                                      Call("getPalmPosition")>>]
        handled ==
            IF detected
            THEN changeStep(followStep(classified, currentGesture, palm), g,
                            currentGesture, lastMeaningfulGesture, palm,
                            offsets, jitter)
            ELSE lostStep(start, currentGesture, draws)
        done == updateStep(handled)
    IN  /\ frames < MaxFrames
        /\ \A i \in Particles : \A k \in 1..3 :
              Abs(currentPositions[i][k]) <= MaxCoordinate
        /\ frames' = frames + 1
        /\ handDetected' = detected
        /\ waveHistory' = historyAfterFrame(waveHistory, detected, lm)
        /\ IF detected
           THEN /\ landmarks' = lm
                /\ gesture' = g
                /\ calls' = calls + 1
                /\ lastPalmPosition' = palm
                /\ palmCalls' = palmCalls + 1
                /\ currentGesture' = g
                /\ lastMeaningfulGesture' =
                      IF g # currentGesture
                      THEN meaningfulGesture(currentGesture, lastMeaningfulGesture)
                      ELSE lastMeaningfulGesture
                /\ recentGesture' = IF g # "none" THEN g ELSE recentGesture
           ELSE /\ UNCHANGED <<landmarks, gesture, calls, lastPalmPosition,
                               palmCalls, lastMeaningfulGesture, recentGesture>>
                /\ currentGesture' = "none"
        /\ EngineBecomes(done.engine)
        /\ frameCalls' = done.calls
        /\ lastCommand' = LastCommandOf(done.calls, lastCommand)
        /\ lastCall' = "update"
        /\ lastArgs' = NoArgs
        /\ sameAsPrevious' = (lastCall = "update")
        /\ lastEvicted' = evictedKey(textCache, done.engine.textCache, lastEvicted)
        /\ UNCHANGED <<cmdsLeft, stepsLeft>>

\* The Math.random() values of a frame: the first of each kind of draw, or
\* the other of each.
FrameDraws ==
    LET offsets == CHOOSE d \in OffsetDraws : TRUE
        jitter == CHOOSE d \in JitterDraws : TRUE
        draws == CHOOSE d \in ScatterDraws : TRUE
    IN  {[offsets |-> offsets, jitter |-> jitter, draws |-> draws],
         [offsets |-> CHOOSE d \in OffsetDraws : d # offsets,
          jitter |-> CHOOSE d \in JitterDraws : d # jitter,
          draws |-> CHOOSE d \in ScatterDraws : d # draws]}

NextApp ==
    \/ \E lm \in AppSamples, r \in FrameDraws :
          Frame(TRUE, lm, r.offsets, r.jitter, r.draws)
    \/ \E r \in FrameDraws :
          Frame(FALSE, BaseHand, r.offsets, r.jitter, r.draws)

\* start(): resetParticles() on the constructed renderer, then the loop.
InitStarted ==
    /\ InitGestureManager
    /\ InitApp
    /\ \E r \in FrameDraws :
          LET current == CHOOSE l \in InitialLayouts : TRUE
          IN  EngineIs(resetParticles(constructed(current, current), r.draws))
    /\ lastCommand = "resetParticles"
    /\ lastCall = "resetParticles"
    /\ lastArgs = NoArgs
    /\ sameAsPrevious = FALSE
    /\ lastEvicted = <<>>
    /\ cmdsLeft = 0
    /\ stepsLeft = 0

SpecApp == InitStarted /\ [][NextApp]_vars

-----------------------------------------------------------------------------
(* Claims about the classifier *)

CheckOrder ==
    <<"wave", "finger_heart", "victory", "thumbs_up", "ok_sign", "open_palm",
      "fist">>

\* Whether check k of the order holds for the last call: the wave check on
\* the history as that call left it, the static checks on its sample.
CheckHolds(k) ==
    CASE k = 1 -> waveSpread(waveHistory)
      [] k = 2 -> isFingerHeart(landmarks)
      [] k = 3 -> isVictory(landmarks)
      [] k = 4 -> isThumbsUp(landmarks)
      [] k = 5 -> isOkSign(landmarks)
      [] k = 6 -> isOpenPalm(landmarks)
      [] k = 7 -> isFist(landmarks)

\* C1: after every detectGesture call the returned symbol is the first check
\* that holds in the order wave, finger_heart, victory, thumbs_up, ok_sign,
\* open_palm, fist, and it is none exactly when none of the seven holds.
C1_FirstMatchWins ==
    calls > 0 =>
        /\ \A k \in 1..7 :
              gesture = CheckOrder[k]
                  <=> (CheckHolds(k) /\ \A j \in 1..(k - 1) : ~CheckHolds(j))
        /\ gesture = "none" <=> \A k \in 1..7 : ~CheckHolds(k)

\* An earlier check wins over a later one that also holds: ok_sign returned
\* for a sample that is an open palm too.
C1_Witness ==
    /\ calls > 0
    /\ gesture = "ok_sign"
    /\ isOkSign(landmarks)
    /\ isOpenPalm(landmarks)

C2_WitnessBoundary ==
    /\ Len(waveHistory) >= 5
    /\ gesture # "wave"
    /\ \E i, j \in DOMAIN waveHistory : waveHistory[i] - waveHistory[j] = 15

-----------------------------------------------------------------------------
(* Claims about the renderer's commands *)

\* The step is a call of the named command.
Calls(name) == cmdsLeft' = cmdsLeft - 1 /\ lastCall' = name

\* The step is a call of update().
CallsUpdate == cmdsLeft' = cmdsLeft /\ lastCall' = "update"

\* (Math.random() - 0.5) * 15 is within 7.5 of zero
jitterBound == (15 * Unit) \div 2

\* target is position times the explosion factor plus a jitter within the
\* bound, as a stored float32
OutwardScaled(target, position) ==
    \A c \in 1..3 :
        Abs(target[c] - explosionFactor * position[c])
            <= jitterBound + Spacing(Abs(target[c]))

\* C3: explode() called while k particles are active gives exactly the
\* particles with index below k their current position times the factor plus
\* bounded jitter as target, parks every other particle, and leaves the active
\* count at k; cluster mode with k below the particle count included.
C3_ExplodeKeepsActiveSet ==
    [][Calls("explode") =>
          /\ activeParticleCount' = activeParticleCount
          /\ \A i \in Particles :
                IF i < activeParticleCount
                THEN OutwardScaled(targetPositions'[i], currentPositions[i])
                ELSE targetPositions'[i] = parkedTarget]_vars

\* C4: the active count is between 0 and the particle count in every state,
\* and after updateText it is the smaller of the number of sampled points
\* and the particle count.
C4_ActiveCountBounded ==
    /\ activeParticleCount \in 0..particleCount
    /\ lastCall = "updateText" =>
          activeParticleCount
              = Min2(Len(generateTextPoints(lastArgs.text)), particleCount)

\* C5: updateFistBallPosition called when the last effect command was
\* resetParticles, updateText or explode, or before any command, leaves the
\* targets, the stored offsets, the active count and the dirty flag as they
\* were.
C5_FollowOnlyInClusterMode ==
    [][Calls("updateFistBallPosition") /\ lastCommand # "createFistBall" =>
          UNCHANGED <<targetPositions, fistBallOffsets, activeParticleCount,
                      needsUpdate>>]_vars

\* C6: whenever isFistBallActive is set, every particle below the active
\* count has the cluster centre plus its stored offset as target and every
\* other particle has the parked target.
C6_ClusterTargets ==
    isFistBallActive =>
        \A i \in Particles :
            targetPositions[i] =
                IF i < activeParticleCount
                THEN froundVec(vecAdd(fistBallCenter, fistBallOffsets[i]))
                ELSE parkedTarget

\* The speed of the mode that an effect command sets.
ModeSpeed(command) ==
    CASE command = "updateText" -> textTransitionSpeed
      [] command = "createFistBall" -> fistBallTransitionSpeed
      [] command = "explode" -> explosionTransitionSpeed

\* C7: the speed that update() applies is the constant of the mode the last
\* effect command set: 0.08 after updateText, 0.15 after createFistBall, 0.12
\* after explode, whatever the positions and targets are.
C7_SpeedFollowsMode ==
    [][CallsUpdate /\ needsUpdate
          /\ lastCommand \in {"updateText", "createFistBall", "explode"} =>
          currentTransitionSpeed' = ModeSpeed(lastCommand)]_vars

\* Every component of target - current is within the movement threshold.
AtSteadyState ==
    \A i \in Particles : \A c \in 1..3 :
        Abs(targetPositions[i][c] - currentPositions[i][c])
            <= Unit \div updateThresholdInverse

\* C8: update() at steady state changes no position and leaves the dirty flag
\* cleared, and update() with the dirty flag clear changes no position, no
\* target and not the flag; so every further update() is a no-op as well.
C8_SteadyStateIdempotent ==
    [][CallsUpdate =>
          /\ AtSteadyState =>
                /\ currentPositions' = currentPositions
                /\ targetPositions' = targetPositions
                /\ ~needsUpdate'
          /\ ~needsUpdate =>
                UNCHANGED <<currentPositions, targetPositions, needsUpdate>>]_vars

\* The transition an effect command started has run to the steady state and
\* update() was called again after the dirty flag was cleared.
C8_Witness ==
    /\ lastCommand \in {"updateText", "createFistBall", "explode", "resetParticles"}
    /\ lastCall = "update"
    /\ sameAsPrevious
    /\ ~needsUpdate
    /\ AtSteadyState
    /\ \E i \in Particles : currentPositions[i] # targetPositions[i]

\* C9: after an effect command, with update() called every frame and no
\* further command, the renderer becomes idle: the dirty flag is cleared with
\* every component within the threshold.
C9_EventuallyIdle ==
    [](lastCommand # "none" => <>(~needsUpdate /\ AtSteadyState))

\* C10: updateText called twice in a row with the same text and colour
\* leaves the same targets and the same active count both times, and the
\* second call leaves the cache as the first left it.
C10_RepeatedTextIsCacheHit ==
    [][Calls("updateText") /\ lastCall = "updateText"
          /\ lastArgs' = lastArgs =>
          /\ targetPositions' = targetPositions
          /\ activeParticleCount' = activeParticleCount
          /\ Len(textCache') = Len(textCache)
          /\ textCache' = textCache]_vars

\* The second of two identical updateText calls, for a text that has sampled
\* points, with another text in the cache as well.
C10_Witness ==
    /\ lastCall = "updateText"
    /\ sameAsPrevious
    /\ lastArgs.text # ""
    /\ Len(textCache) >= 2

-----------------------------------------------------------------------------
(* Claims about re-anchoring the cluster *)

\* The step is updateFistBallPosition(B) called right after
\* createFistBall(A).
Reanchors ==
    /\ lastCall = "createFistBall"
    /\ lastArgs.given
    /\ Calls("updateFistBallPosition")

\* 200 (new - old) = scale (B - A) in component c of particle i, with A and
\* B the palm positions of the two calls (in halves of a hundredth).
ShiftedBy(i, c, scale) ==
    LET A == lastArgs.palmPosition
        B == lastArgs'.palmPosition
        shift == CASE c = 1 -> B.x - A.x
                   [] c = 2 -> B.y - A.y
                   [] c = 3 -> B.z - A.z
    IN  200 * (targetPositions'[i][c] - targetPositions[i][c])
            = scale * shift * Unit

\* C11, as stated: after createFistBall(A) then updateFistBallPosition(B)
\* every active particle's new target is B + (old target - A), with A and B
\* the values passed to the two calls.
C11_ReanchoredByPassedValues ==
    [][Reanchors =>
          \A i \in Particles : i < activeParticleCount =>
              \A c \in 1..3 : ShiftedBy(i, c, 1)]_vars

\* C11, amended: every active particle's new target is W(B) + (old target
\* - W(A)), where W(p) = ((p.x - 0.5) * 20, -(p.y - 0.5) * 15, p.z * 10) is
\* the world position of a passed palm position.
C11_ReanchoredByWorldPositions ==
    [][Reanchors =>
          \A i \in Particles : i < activeParticleCount =>
              /\ ShiftedBy(i, 1, 20)
              /\ ShiftedBy(i, 2, -15)
              /\ ShiftedBy(i, 3, 10)]_vars

\* updateFistBallPosition called right after createFistBall, as the second
\* call on the renderer, with the cluster's particles re-anchored.
C11_Witness ==
    /\ lastCall = "updateFistBallPosition"
    /\ lastCommand = "createFistBall"
    /\ cmdsLeft = MaxCommands - 2
    /\ stepsLeft = MaxUpdates
    /\ activeParticleCount > 0
    /\ \A i \in Particles : i < activeParticleCount =>
          targetPositions[i] = vecAdd(fistBallCenter, fistBallOffsets[i])

-----------------------------------------------------------------------------
(* Claims about single poses and call sequences of the classifier *)

\* The wave check fires in the last call: the history, that call's tracking
\* coordinate included, has at least 5 samples and spreads over more than
\* 0.15.
WaveFires ==
    /\ Len(waveHistory) >= 5
    /\ \E i, j \in DOMAIN waveHistory : waveHistory[i] - waveHistory[j] > 15

\* Every call so far on the fresh classifier is in the history, and the
\* tracking coordinates alternate between a and b.
AlternatesBetween(a, b) ==
    /\ Len(waveHistory) = calls
    /\ \A i \in DOMAIN waveHistory : waveHistory[i] = IF i % 2 = 1 THEN a ELSE b

\* The last sample has all four non-thumb fingertips above their PIP joints
\* (smaller y), or all four below.
PalmOpen == \A f \in 1..4 : landmarks[4 * f + 4].y < landmarks[4 * f + 2].y

FingersCurled == \A f \in 1..4 : landmarks[4 * f + 4].y > landmarks[4 * f + 2].y

\* Thumb tip and index tip less than 0.05 apart.
OkPinch ==
    (landmarks[4].x - landmarks[8].x) * (landmarks[4].x - landmarks[8].x)
        + (landmarks[4].y - landmarks[8].y) * (landmarks[4].y - landmarks[8].y)
        < 25

\* Thumb tip more than 0.05 above the thumb MCP.
ThumbUp == landmarks[4].y < landmarks[2].y - 5

\* Earlier calls on the classifier had another tracking coordinate.
HistoryVaries ==
    \E i, j \in DOMAIN waveHistory : waveHistory[i] # waveHistory[j]

\* C12, as stated: on a fresh classifier, samples whose tracking coordinate
\* alternates between two values 0.15 or more apart give wave on the 5th call
\* and not on calls 1 to 4.
C12_WaveOnFifthCallFromThreshold ==
    \A a, b \in TrackXs :
        Abs(a - b) >= 15 /\ AlternatesBetween(a, b) =>
            /\ calls \in 1..4 => gesture # "wave"
            /\ calls = 5 => gesture = "wave"

\* C12, amended: the same for two values more than 0.15 apart.
C12_WaveOnFifthCall ==
    \A a, b \in TrackXs :
        Abs(a - b) > 15 /\ AlternatesBetween(a, b) =>
            /\ calls \in 1..4 => gesture # "wave"
            /\ calls = 5 => gesture = "wave"

\* The 5th call of an alternating sequence returns wave for a fist.
C12_Witness ==
    /\ calls = 5
    /\ gesture = "wave"
    /\ FingersCurled
    /\ \E a, b \in TrackXs : Abs(a - b) > 15 /\ AlternatesBetween(a, b)

\* C13, as stated: a sample that is an open palm and neither a finger heart
\* nor an OK sign is classified open_palm, whatever calls preceded it.
C13_OpenPalmAlways ==
    calls > 0 /\ PalmOpen /\ ~isFingerHeart(landmarks) /\ ~isOkSign(landmarks)
        => gesture = "open_palm"

\* C13, amended: such a sample is classified open_palm unless the wave check
\* fires in that call.
C13_OpenPalmUnlessWave ==
    calls > 0 /\ PalmOpen /\ ~isFingerHeart(landmarks) /\ ~isOkSign(landmarks)
        /\ ~WaveFires
        => gesture = "open_palm"

\* open_palm returned with the history full enough for a wave, after calls
\* with another tracking coordinate.
C13_Witness ==
    /\ gesture = "open_palm"
    /\ PalmOpen
    /\ Len(waveHistory) >= 5
    /\ HistoryVaries

\* C14, as stated: a sample with the OK pinch and all four fingers extended
\* is classified ok_sign, whatever calls preceded it.
C14_OkSignAlways ==
    calls > 0 /\ OkPinch /\ PalmOpen => gesture = "ok_sign"

\* C14, amended: such a sample is never classified open_palm, and is
\* classified ok_sign unless the wave check fires in that call.
C14_OkSignBeforeOpenPalm ==
    calls > 0 /\ OkPinch /\ PalmOpen =>
        /\ gesture # "open_palm"
        /\ ~WaveFires => gesture = "ok_sign"

C14_Witness ==
    /\ gesture = "ok_sign"
    /\ OkPinch
    /\ PalmOpen
    /\ Len(waveHistory) >= 5
    /\ HistoryVaries

\* The last sample was the sample of every call so far.
SameSampleEveryCall ==
    \A i \in DOMAIN waveHistory : waveHistory[i] = landmarks[12].x

\* C15, as stated: a fresh classifier given 20 times one sample with all
\* four fingers curled returns fist on every call from the 5th and wave on
\* none.
C15_FistFromFifthCall ==
    calls > 0 /\ FingersCurled /\ SameSampleEveryCall =>
        /\ gesture # "wave"
        /\ calls >= 5 => gesture = "fist"

\* C15, amended: the same for a sample whose thumb tip is not more than 0.05
\* above the thumb MCP.
C15_FistFromFifthCallThumbDown ==
    calls > 0 /\ FingersCurled /\ ~ThumbUp /\ SameSampleEveryCall =>
        /\ gesture # "wave"
        /\ calls >= 5 => gesture = "fist"

\* The 20th call of a fist.
C15_Witness ==
    /\ calls = 20
    /\ Len(waveHistory) = 20
    /\ FingersCurled
    /\ ~ThumbUp
    /\ gesture = "fist"

\* C16: a sample with all four fingers curled, in a call where the wave check
\* does not fire, is classified thumbs_up when the thumb tip is more than 0.05
\* above the thumb MCP and fist otherwise, at exactly 0.05 too.
C16_ThumbsUpOrFist ==
    calls > 0 /\ FingersCurled /\ ~WaveFires =>
        gesture = IF ThumbUp THEN "thumbs_up" ELSE "fist"

\* fist returned with the thumb tip exactly 0.05 above the thumb MCP.
C16_Witness ==
    /\ calls > 0
    /\ FingersCurled
    /\ landmarks[4].y = landmarks[2].y - 5
    /\ gesture = "fist"

-----------------------------------------------------------------------------
(* Claims about the cache, empty texts and the buffers *)

\* C17: the text cache never holds more entries than its limit (10 in the
\* program), whatever updateText calls were made.
C17_CacheWithinLimit == Len(textCache) <= textCacheLimit

\* C18: updateText for a text with no sampled point leaves the active count
\* at 0, every particle with the parked target, and the dirty flag set.
C18_EmptyTextParksAll ==
    lastCall = "updateText" /\ Len(generateTextPoints(lastArgs.text)) = 0 =>
        /\ activeParticleCount = 0
        /\ \A i \in Particles : targetPositions[i] = parkedTarget
        /\ needsUpdate

\* updateText("") called after another command.
C18_Witness ==
    /\ lastCall = "updateText"
    /\ lastArgs.text = ""
    /\ cmdsLeft < MaxCommands - 1
    /\ activeParticleCount = 0
    /\ \A i \in Particles : targetPositions[i] = parkedTarget

\* C19: explode() called while the active count is 0 changes no target.
C19_ExplodeOfNothingKeepsTargets ==
    [][Calls("explode") /\ activeParticleCount = 0 =>
          targetPositions' = targetPositions]_vars

\* C20: no command writes a position, and update() writes no target, no
\* stored offset, not the active count and not the cache.
C20_BufferOwnership ==
    [][/\ cmdsLeft' = cmdsLeft - 1 => currentPositions' = currentPositions
       /\ CallsUpdate =>
             UNCHANGED <<targetPositions, fistBallOffsets, activeParticleCount,
                         textCache>>]_vars

\* update() has moved particles and a command of each kind that sets targets
\* from positions or offsets was called: explode after an update.
C20_Witness ==
    /\ lastCall = "explode"
    /\ stepsLeft < MaxUpdates
    /\ activeParticleCount > 0
    /\ \E i \in Particles : currentPositions[i] # targetPositions[i]

-----------------------------------------------------------------------------
(* Claims about the integration step and the commands' targets *)

\* C21: update() moves every component toward its target: the distance to
\* the target does not grow and the position does not pass the target.
C21_MovesTowardTarget ==
    [][CallsUpdate =>
          \A i \in Particles : \A c \in 1..3 :
              LET before == targetPositions[i][c] - currentPositions[i][c]
                  after == targetPositions[i][c] - currentPositions'[i][c]
              IN  /\ Abs(after) <= Abs(before)
                  /\ before >= 0 => after >= 0
                  /\ before <= 0 => after <= 0]_vars

\* An update() that moved particles on their way to a command's targets.
C21_Witness ==
    /\ lastCall = "update"
    /\ lastCommand # "none"
    /\ needsUpdate
    /\ sameAsPrevious
    /\ \E i \in Particles : \E c \in 1..3 :
          Abs(targetPositions[i][c] - currentPositions[i][c]) > Unit

\* The targets updateText assigns for a text: its sampled points, scaled by
\* 1.5 at z = 0, then the parked target.
AssignedByText(i, target, text) ==
    LET points == generateTextPoints(text)
    IN  target = IF i < Len(points)
                 THEN <<textTarget(points[i + 1].x), textTarget(points[i + 1].y), 0>>
                 ELSE parkedTarget

\* A target resetParticles assigns: a point of the box 30 x 20 x 10 around
\* the centre, or the parked target.
AssignedByReset(target) ==
    \/ target = parkedTarget
    \/ /\ Abs(target[1]) <= 15 * Unit
       /\ Abs(target[2]) <= 10 * Unit
       /\ Abs(target[3]) <= 5 * Unit

\* C22: updateText, explode, createFistBall and resetParticles each assign
\* the target of every particle within the call: after the call every target
\* is a value of that call (a point of the text, the scaled position, the new
\* centre plus the offset, a point of the box, or the parked target), and
\* update() assigns no target later.
C22_CommandAssignsEveryTarget ==
    [][/\ Calls("updateText") =>
             \A i \in Particles :
                 AssignedByText(i, targetPositions'[i], lastArgs'.text)
       /\ Calls("explode") =>
             \A i \in Particles :
                 \/ targetPositions'[i] = parkedTarget
                 \/ OutwardScaled(targetPositions'[i], currentPositions[i])
       /\ Calls("createFistBall") =>
             \A i \in Particles :
                 \/ targetPositions'[i] = parkedTarget
                 \/ targetPositions'[i]
                        = vecAdd(fistBallCenter', fistBallOffsets'[i])
       /\ Calls("resetParticles") =>
             \A i \in Particles : AssignedByReset(targetPositions'[i])
       /\ CallsUpdate => targetPositions' = targetPositions]_vars

\* updateText called while the transition of an earlier command was under
\* way, for a text with fewer points than particles.
C22_Witness ==
    /\ lastCall = "updateText"
    /\ lastArgs.text = "."
    /\ cmdsLeft <= MaxCommands - 2
    /\ stepsLeft < MaxUpdates
    /\ \E i \in Particles : Abs(currentPositions[i][3]) > 5 * Unit

-----------------------------------------------------------------------------
(* Claims about the wave history and getPalmPosition (C28, C30) *)

DetectStep == calls' = calls + 1

PalmStep == palmCalls' = palmCalls + 1 /\ calls' = calls

\* C28: the wave history never holds more than 30 samples; every
\* detectGesture call appends that call's tracking x at the end; the only
\* sample ever removed is the oldest, and only when the history was full, so
\* the rest keep their order; nothing else touches the history and it is
\* never emptied.
C28_HistoryIsBoundedQueue ==
    [][/\ Len(waveHistory') <= 30
       /\ DetectStep =>
             LET x == landmarks'[12].x
                 h == waveHistory
                 hn == waveHistory'
             IN  /\ hn[Len(hn)] = x
                 /\ \/ /\ Len(hn) = Len(h) + 1
                       /\ \A k \in 1..Len(h) : hn[k] = h[k]
                    \/ /\ Len(hn) = Len(h)
                       /\ Len(h) = waveHistoryCapacity
                       /\ \A k \in 1..(Len(h) - 1) : hn[k] = h[k + 1]
       /\ ~DetectStep => waveHistory' = waveHistory]_vars

\* More calls than 30, a full history holding different samples.
C28_Witness ==
    /\ calls > 30
    /\ Len(waveHistory) = waveHistoryCapacity
    /\ Cardinality(Range(waveHistory)) > 1

\* C30: a getPalmPosition call leaves the wave history and the last result
\* of detectGesture alone, so every sample is classified after it as it
\* would have been before it; its result is the midpoint, component by
\* component, of landmark 0 and landmark 9.
C30_PalmPositionIsPure ==
    [][PalmStep =>
          /\ waveHistory' = waveHistory
          /\ gesture' = gesture
          /\ \A lm \in SweepSamples :
                 detectGesture(waveHistory', lm) = detectGesture(waveHistory, lm)
          /\ lastPalmPosition'.x = landmarks[0].x + landmarks[9].x
          /\ lastPalmPosition'.y = landmarks[0].y + landmarks[9].y
          /\ lastPalmPosition'.z = landmarks[0].z + landmarks[9].z]_vars

\* getPalmPosition was called between detectGesture calls, on a hand whose
\* wrist and middle-finger MCP differ in every component, and a wave
\* followed.
C30_Witness ==
    /\ palmCalls > 0
    /\ lastPalmPosition = [x |-> 101, y |-> 160, z |-> -7]
    /\ calls > waveMinSamples
    /\ gesture = "wave"

-----------------------------------------------------------------------------
(* Claims about App.animate (C23-C27) *)

FrameStep == frames' = frames + 1

EngineCommands ==
    {"updateText", "explode", "createFistBall", "updateFistBallPosition",
     "resetParticles"}

EffectCommands == {"updateText", "explode", "createFistBall"}

\* The places in a frame's calls where one of the named methods is called.
PlacesOf(log, names) == {k \in 1..Len(log) : log[k].call \in names}

\* The effect command the symbol g asks for is one of: the text of g, the
\* cluster for a fist, the explosion for an open palm.
DerivedFrom(c, g) ==
    \/ c.call = "createFistBall" /\ g = "fist"
    \/ c.call = "explode" /\ g = "open_palm"
    \/ /\ c.call = "updateText"
       /\ g \notin {"fist", "none"}
       /\ c.text = gestureText(g).text

\* C23: in every frame, detectGesture is called, and the frame's tracking x
\* is in the wave history, before any renderer command; an effect command of
\* the frame is the one the frame's gesture asks for; update() is called
\* exactly once, last, and moves the particles towards the targets the
\* frame's commands have set.
C23_ClassifyCommandUpdate ==
    [][FrameStep =>
          LET log == frameCalls'
          IN  /\ PlacesOf(log, {"update"}) = {Len(log)}
              /\ handDetected' =>
                    /\ log[1].call = "detectGesture"
                    /\ PlacesOf(log, {"detectGesture"}) = {1}
                    /\ waveHistory'[Len(waveHistory')] = landmarks'[12].x
                    /\ \A k \in PlacesOf(log, EffectCommands) :
                          DerivedFrom(log[k], gesture')
              /\ ~handDetected' => PlacesOf(log, EffectCommands) = {}
              /\ PlacesOf(log, EngineCommands) # {} =>
                    /\ currentTransitionSpeed' =
                          transitionSpeed(isFistBallActive', targetPositions')
                    /\ currentPositions' =
                          [i \in Particles |->
                              stepParticle(currentPositions[i],
                                           targetPositions'[i],
                                           currentTransitionSpeed')]]_vars

\* A frame that classified, followed the fist, issued an effect command and
\* then updated, the command having moved a target.
C23_Witness ==
    /\ Len(frameCalls) = 5
    /\ frameCalls[3].call = "updateFistBallPosition"
    /\ frameCalls[4].call \in EffectCommands
    /\ frameCalls[5].call = "update"

\* C24: a frame in which no hand is detected calls neither detectGesture nor
\* getPalmPosition and leaves the wave history as it was.
C24_NoHandNoClassify ==
    [][FrameStep /\ ~handDetected' =>
          /\ PlacesOf(frameCalls', {"detectGesture", "getPalmPosition"}) = {}
          /\ calls' = calls
          /\ waveHistory' = waveHistory]_vars

\* A frame without a hand after frames with one: the history holds samples.
C24_Witness ==
    /\ frames > 0
    /\ ~handDetected
    /\ Len(waveHistory) >= 2

\* C25: an effect command (updateText, createFistBall, explode) is issued
\* only in a frame with a hand whose gesture differs from currentGesture as
\* it was before the frame; in a frame whose gesture equals it the only
\* renderer command is updateFistBallPosition.
C25_EffectOnlyOnChange ==
    [][FrameStep =>
          LET log == frameCalls'
          IN  /\ PlacesOf(log, EffectCommands) # {} =>
                    handDetected' /\ gesture' # currentGesture
              /\ handDetected' /\ gesture' = currentGesture =>
                    \A k \in PlacesOf(log, EngineCommands) :
                        log[k].call = "updateFistBallPosition"]_vars

\* A frame whose gesture was the recorded one, the fist, with the cluster
\* following.
C25_Witness ==
    /\ handDetected
    /\ gesture = "fist"
    /\ currentGesture = "fist"
    /\ Len(frameCalls) = 4
    /\ frameCalls[3].call = "updateFistBallPosition"

\* C26: in a frame that starts with currentGesture = fist and whose gesture is
\* open_palm, explode() is called and updateText is not.
C26_FistToPalmExplodes ==
    [][FrameStep /\ currentGesture = "fist" /\ handDetected'
            /\ gesture' = "open_palm" =>
          /\ PlacesOf(frameCalls', {"explode"}) # {}
          /\ PlacesOf(frameCalls', {"updateText"}) = {}
          /\ ~isFistBallActive']_vars

\* The open palm after the fist: explode was called in the frame.
C26_Witness ==
    /\ currentGesture = "open_palm"
    /\ lastMeaningfulGesture = "fist"
    /\ PlacesOf(frameCalls, {"explode"}) # {}

HeldFist(lm) == isFist(lm) /\ ~isThumbsUp(lm)

\* C27: in a frame with a fist (not a thumbs-up) that follows a frame with a
\* fist, wherever the hand is in either, currentGesture stays fist, the
\* cluster stays active, and updateFistBallPosition is called with the frame's
\* palm position.
C27_HeldFistFollows ==
    [][/\ FrameStep
       /\ frames > 0 /\ handDetected /\ HeldFist(landmarks)
       /\ handDetected' /\ HeldFist(landmarks')
       =>
          /\ currentGesture' = "fist"
          /\ isFistBallActive'
          /\ \E k \in PlacesOf(frameCalls', {"updateFistBallPosition"}) :
                frameCalls'[k].palmPosition = getPalmPosition(landmarks')]_vars

-----------------------------------------------------------------------------
(* Claims about the renderer (C31-C34) *)

\* C31: after resetParticles, whatever the state before it, the active count
\* is the smaller of the scatter size and the particle count, every particle
\* from that index on has the parked target, cluster mode is off and the
\* dirty flag is set; an updateFistBallPosition that follows it changes no
\* field of the renderer.
C31_ResetEndsClusterMode ==
    [][/\ Calls("resetParticles") =>
            /\ activeParticleCount' = Min2(randomParticleLimit, particleCount)
            /\ \A i \in Particles :
                  i >= activeParticleCount' => targetPositions'[i] = parkedTarget
            /\ ~isFistBallActive'
            /\ needsUpdate'
       /\ lastCall = "resetParticles" /\ Calls("updateFistBallPosition") =>
            UNCHANGED engineVars]_vars

\* A cluster was made, resetParticles was called in cluster mode, and
\* updateFistBallPosition came right after it.
C31_Witness ==
    /\ lastCall = "updateFistBallPosition"
    /\ lastCommand = "resetParticles"
    /\ cmdsLeft = MaxCommands - 3
    /\ \E i \in Particles : fistBallOffsets[i] # <<0, 0, 0>>
    /\ ~isFistBallActive

\* The particles update() counts as moved: those whose x is further than the
\* threshold from its target.
CountedAsMoved ==
    {i \in Particles :
        exceedsThreshold(targetPositions[i][1] - currentPositions[i][1])}

\* update() reports a partial range in this step.
ReportsPartialRange ==
    /\ CallsUpdate
    /\ needsUpdate
    /\ \E i \in Particles : componentMoves(currentPositions[i], targetPositions[i])
    /\ Cardinality(CountedAsMoved) * 10 < particleCount

\* The three components of particle i lie in the range of buffer elements.
RangeCovers(range, i) ==
    range.start <= 3 * i /\ 3 * i + 3 <= range.start + range.count

\* C32: when update() reports a partial range, every particle whose position
\* the step changed lies in the reported range.
C32_PartialRangeCoversChanges ==
    [][ReportsPartialRange =>
          /\ Len(updateRanges') = 1
          /\ \A i \in Particles :
                currentPositions'[i] # currentPositions[i] =>
                    RangeCovers(updateRanges'[1], i)]_vars

C34_EvictsEarliestInserted ==
    [][Calls("updateText") =>
          LET key == cacheKey(lastArgs'.text, makeFluorescent(lastArgs'.color))
              hit == \E k \in DOMAIN textCache : textCache[k].key = key
              new == textCache'[Len(textCache')]
          IN  IF hit THEN textCache' = textCache
              ELSE /\ new.key = key
                   /\ \/ textCache' = Append(textCache, new)
                      \/ /\ textCache # <<>>
                         /\ textCache' = Append(Tail(textCache), new)
                         /\ lastEvicted' = textCache[1].key]_vars

\* An entry was dropped from the full cache, and the call after that was a
\* hit on the entry that is now the oldest: it is still the first.
C34_Witness ==
    /\ lastEvicted # <<>>
    /\ Len(textCache) = textCacheLimit + 1
    /\ lastCall = "updateText"
    /\ textCache[1].key = cacheKey(lastArgs.text, makeFluorescent(lastArgs.color))

-----------------------------------------------------------------------------
(* Claims about App.animate (C35, C36) *)

\* C35: explode() is called in a frame exactly when a hand is detected, its
\* gesture is open_palm and was not the recorded one, cluster mode is active,
\* and the last gesture other than none recorded before the frame is fist.
\* So frames classified none, and frames without a hand after them, between
\* the fist and the open palm do not cancel the explosion; any other gesture
\* in between does.
C35_ExplodeExactlyAfterFist ==
    [][FrameStep =>
          (PlacesOf(frameCalls', {"explode"}) # {}
             <=> /\ handDetected'
                 /\ gesture' = "open_palm"
                 /\ currentGesture # "open_palm"
                 /\ isFistBallActive
                 /\ recentGesture = "fist")]_vars

\* explode() in a frame that did not start from the fist (no
\* updateFistBallPosition before it), after a frame without a hand: the
\* recorded gesture was none when the open palm came.
C35_Witness ==
    /\ Len(frameCalls) = 4
    /\ frameCalls[3].call = "explode"
    /\ frames > calls
    /\ recentGesture = "open_palm"

\* C36: after every frame without a hand, currentGesture is none and cluster
\* mode is off, whatever was classified before the hand was lost.
C36_NoHandEndsCluster ==
    [][FrameStep /\ ~handDetected' =>
          currentGesture' = "none" /\ ~isFistBallActive']_vars

-----------------------------------------------------------------------------
(* Claims about the classifier (C37-C39) *)

\* The static checks a sample satisfies, by their places in CheckOrder.
StaticChecksHeld == {k \in 2..7 : CheckHolds(k)}

\* C37: a sample satisfies at most two of the six static checks, and two only
\* as thumbs_up with fist or as ok_sign with open_palm; every other pair is
\* exclusive.
C37_OnlyTwoOverlaps ==
    calls > 0 =>
        \/ Cardinality(StaticChecksHeld) <= 1
        \/ StaticChecksHeld = {4, 7}
        \/ StaticChecksHeld = {5, 6}

\* A sample that is a thumbs-up and a fist at once.
C37_Witness ==
    /\ calls > 0
    /\ isThumbsUp(landmarks)
    /\ isFist(landmarks)
    /\ StaticChecksHeld = {4, 7}

\* C38: when the last 20 calls all supplied the same tracking coordinate,
\* detectGesture did not return wave: after the coordinate stops changing,
\* wave is returned on the next 19 calls at most.
C38_WaveEndsAfterTwentyEqual ==
    calls >= waveHistoryCapacity
        /\ Len(waveHistory) >= waveHistoryCapacity
        /\ (\A k \in (Len(waveHistory) - waveHistoryCapacity + 1)..Len(waveHistory) :
                waveHistory[k] = landmarks[12].x)
        => gesture # "wave"

\* wave returned on the 19th call with an unchanged coordinate: the oldest
\* sample is the only one that differs.
C38_Witness ==
    /\ gesture = "wave"
    /\ Len(waveHistory) = waveHistoryCapacity
    /\ waveHistory[1] # landmarks[12].x
    /\ \A k \in 2..Len(waveHistory) : waveHistory[k] = landmarks[12].x

\* Depths for the 21 landmarks: every landmark at its own depth, and the
\* thumb tip and the index tip far apart in depth.
Depths ==
    {[i \in 0..20 |-> 10 * i - 100],
     [i \in 0..20 |-> IF i = 4 THEN 40 ELSE IF i = 8 THEN -40 ELSE 0]}

\* The sample with the given z on every landmark, x and y as they are.
AtDepths(lm, zs) == [i \in 0..20 |-> [lm[i] EXCEPT !.z = zs[i]]]

\* C39: a sample that differs from the one given only in its z coordinates
\* would have got the same symbol from the same wave history, and would have
\* left the same history.
C39_DepthDoesNotMatter ==
    [][DetectStep =>
          \A zs \in Depths :
              /\ detectGesture(waveHistory, AtDepths(landmarks', zs)) = gesture'
              /\ pushWave(waveHistory, AtDepths(landmarks', zs)) = waveHistory']_vars

\* A finger heart, after calls with another tracking coordinate, whose thumb
\* tip is 0.05 from the index tip in x and y: with the depths of Depths the
\* two are further apart in space than either pinch distance.
C39_Witness ==
    /\ calls >= waveMinSamples
    /\ HistoryVaries
    /\ gesture = "finger_heart"
    /\ landmarks[4] # landmarks[8]
    /\ \E zs \in Depths : ~CloserInSpace(AtDepths(landmarks, zs)[4],
                                         AtDepths(landmarks, zs)[8],
                                         heartPinchDistance)

=============================================================================
